---- MODULE Spec2Model ----
(***************************************************************************)
(* Forward-star / reverse-star digraph representations and the iterative   *)
(* depth-first traversal with edge classification of ps4-graphs.           *)
(*                                                                         *)
(* Three programs of the repository are modelled, chosen by `prog`:        *)
(*   "star" - tasks/representation-star: reads the edges, builds a         *)
(*            ForwardStarDigraph and reports max_outdegree(), then builds  *)
(*            a ReverseStarDigraph from the same EdgeBag and reports       *)
(*            max_indegree();                                              *)
(*   "representation" - tasks/representation: the same program with its    *)
(*            own ForwardStarDigraph and ReverseStarDigraph classes;       *)
(*   "dfs"  - the depth-search program: reads the edges, builds a          *)
(*            ForwardStarDigraph, runs dfs::execute on it and classifies   *)
(*            edges with dfs_result::classify_edge.                        *)
(*                                                                         *)
(* C++ vectors are 0-indexed; they are modelled as TLA+ sequences and read *)
(* through At(vec, i) == vec[i + 1].                                       *)
(***************************************************************************)
EXTENDS Integers, Sequences, FiniteSets, TLC

\* Bounds of the model: largest vertex_count and largest number of edges read.
MaxVertex == 3
MaxEdges == 3

VARIABLES
    prog,          \* which program runs: "star" or "dfs"
    pc,            \* position of the program
    vertex_count,  \* the vertex count read from the input header
    edge_bag,      \* EdgeBag::edges, a sequence of Edge records
    input,         \* history: how many times each edge was added to the bag
    g,             \* the ForwardStarDigraph: [ptrs, edges]
    rg,            \* the ReverseStarDigraph: [ptrs, edges]
    res,           \* dfs_result::ctl, one dfs_entry per vertex
    time,          \* the clock of dfs::execute
    st,            \* the explicit stack of dfs_v (top is the last element)
    it,            \* the vertex iterator of the for loop in dfs::execute
    cur,           \* the iterator of the successor loop: an index into g.edges
    events,        \* history: the visitor calls made so far, in order
    classified,    \* the last classify_edge call: [orig, dest, result]
    err,           \* the exception that ended the program, "" if none
    rejected,      \* the arguments of the Edge(orig, dest) construction that threw
    output,        \* what the program reported: [vertex, degree, neighbors]
    queried,       \* the last successors/predecessors/degree call and its result
    stack_log      \* history: the pushes and pops of dfs_v, in order

vars == <<prog, pc, vertex_count, edge_bag, input, g, rg, res, time, st, it,
          cur, events, classified, err, rejected, output, queried, stack_log>>

dfsVars == <<res, time, st, it, cur, events, classified>>

----------------------------------------------------------------------------
\* Vectors

At(vec, i) == vec[i + 1]

----------------------------------------------------------------------------
\* Edge and EdgeBag

Edge(orig, dest) == [orig |-> orig, dest |-> dest]

\* EdgeRejected with && for || in the test of the endpoints
EdgeRejectedBoth(orig, dest) == orig = 0 /\ dest = 0

EdgeRejected(orig, dest) == orig = 0 \/ dest = 0

lt_by_orig(e, other) ==
    IF e.orig # other.orig THEN e.orig < other.orig ELSE e.dest < other.dest

lt_by_dest(e, other) ==
    IF e.dest # other.dest THEN e.dest < other.dest ELSE e.orig < other.orig

\* std::sort with a comparator: the sorted permutation of the sequence,
\* computed here by insertion.
RECURSIVE InsertByOrig(_, _)
InsertByOrig(e, s) ==
    IF s = <<>> THEN <<e>>
    ELSE IF lt_by_orig(e, Head(s)) THEN <<e>> \o s
    ELSE <<Head(s)>> \o InsertByOrig(e, Tail(s))

RECURSIVE sort_by_orig(_)
sort_by_orig(s) ==
    IF s = <<>> THEN <<>> ELSE InsertByOrig(Head(s), sort_by_orig(Tail(s)))

RECURSIVE InsertByDest(_, _)
InsertByDest(e, s) ==
    IF s = <<>> THEN <<e>>
    ELSE IF lt_by_dest(e, Head(s)) THEN <<e>> \o s
    ELSE <<Head(s)>> \o InsertByDest(e, Tail(s))

RECURSIVE sort_by_dest(_)
sort_by_dest(s) ==
    IF s = <<>> THEN <<>> ELSE InsertByDest(Head(s), sort_by_dest(Tail(s)))

----------------------------------------------------------------------------
\* Star representations

NoGraph == [ptrs |-> <<>>, edges |-> <<>>]

\* FillHoles as "if (last != key) { last = key; ptrs.push_back(edges.size()); }":
\* one pointer per origin met, none for the vertex ids skipped
FillHolesOnce(ptrs, last, key, size) ==
    IF last # key THEN [ptrs |-> Append(ptrs, size), last |-> key]
    ELSE [ptrs |-> ptrs, last |-> last]

\* while (last < key) { last++; ptrs.push_back(edges.size()); }
RECURSIVE FillHoles(_, _, _, _)
FillHoles(ptrs, last, key, size) ==
    IF last < key THEN FillHoles(Append(ptrs, size), last + 1, key, size)
    ELSE [ptrs |-> ptrs, last |-> last]

\* PadPtrs as one trailing ptrs.push_back(edges.size())
PadPtrsOnce(ptrs, ptrs_size, size) == Append(ptrs, size)

\* while (ptrs.size() < ptrs_size) ptrs.push_back(edges.size());
RECURSIVE PadPtrs(_, _, _)
PadPtrs(ptrs, ptrs_size, size) ==
    IF Len(ptrs) < ptrs_size THEN PadPtrs(Append(ptrs, size), ptrs_size, size)
    ELSE ptrs

\* for (const Edge e : edge_bag) of the ForwardStarDigraph constructor
RECURSIVE ForwardPass(_, _, _)
ForwardPass(b, bag, i) ==
    IF i > Len(bag) THEN b
    ELSE LET e == bag[i]
             h == FillHoles(b.ptrs, b.last, e.orig, Len(b.edges))
         IN  ForwardPass([ptrs |-> h.ptrs, last |-> h.last,
                          edges |-> Append(b.edges, e.dest)], bag, i + 1)

ForwardStarDigraph(vcount, bag) ==
    LET b == ForwardPass([ptrs |-> <<0>>, last |-> 0, edges |-> <<0>>],
                         sort_by_orig(bag), 1)
    IN  [ptrs |-> PadPtrs(b.ptrs, vcount + 2, Len(b.edges)), edges |-> b.edges]

\* for (const Edge e : edge_bag) of the ReverseStarDigraph constructor
RECURSIVE ReversePass(_, _, _)
ReversePass(b, bag, i) ==
    IF i > Len(bag) THEN b
    ELSE LET e == bag[i]
             h == FillHoles(b.ptrs, b.last, e.dest, Len(b.edges))
         IN  ReversePass([ptrs |-> h.ptrs, last |-> h.last,
                          edges |-> Append(b.edges, e.orig)], bag, i + 1)

ReverseStarDigraph(vcount, bag) ==
    LET b == ReversePass([ptrs |-> <<0>>, last |-> 0, edges |-> <<0>>],
                         sort_by_dest(bag), 1)
    IN  [ptrs |-> PadPtrs(b.ptrs, vcount + 2, Len(b.edges)), edges |-> b.edges]

\* tasks/representation, ForwardStarDigraph:
\* if (last_orig != e.orig) { last_orig = e.orig; ptrs.push_back(edges.size()); }
SetPtrOnChange(ptrs, last, key, size) ==
    IF last # key THEN [ptrs |-> Append(ptrs, size), last |-> key]
    ELSE [ptrs |-> ptrs, last |-> last]

\* for (const Edge e : edge_bag) of tasks/representation's ForwardStarDigraph
RECURSIVE RepForwardPass(_, _, _)
RepForwardPass(b, bag, i) ==
    IF i > Len(bag) THEN b
    ELSE LET e == bag[i]
             h == SetPtrOnChange(b.ptrs, b.last, e.orig, Len(b.edges))
         IN  RepForwardPass([ptrs |-> h.ptrs, last |-> h.last,
                             edges |-> Append(b.edges, e.dest)], bag, i + 1)

RepForwardStarDigraph(vertex_size_hint, bag) ==
    LET b == RepForwardPass([ptrs |-> <<0>>, last |-> 0, edges |-> <<0>>],
                            sort_by_orig(bag), 1)
    IN  [ptrs |-> PadPtrs(b.ptrs, vertex_size_hint + 2, Len(b.edges)),
         edges |-> b.edges]

\* tasks/representation, ReverseStarDigraph: the edge loop of ReversePass,
\* then one ptrs.push_back(edges.size())
RepReverseStarDigraph(vertex_size_hint, bag) ==
    LET b == ReversePass([ptrs |-> <<0>>, last |-> 0, edges |-> <<0>>],
                         sort_by_dest(bag), 1)
    IN  [ptrs |-> Append(b.ptrs, Len(b.edges)), edges |-> b.edges]

vertexes_count(gr) == Len(gr.ptrs) - 2

\* std::views::iota(1U, ptrs.size() - 1)
vertexes(gr) == 1 .. (Len(gr.ptrs) - 2)

\* NeighborsIterable(*this, ptrs.at(vertex), ptrs.at(vertex + 1)):
\* the elements edges[_start], ..., edges[_end - 1]
successors(gr, vertex) ==
    LET start == At(gr.ptrs, vertex)
        end   == At(gr.ptrs, vertex + 1)
    IN  [k \in 1 .. (end - start) |-> At(gr.edges, start + k - 1)]

predecessors(gr, vertex) == successors(gr, vertex)

\* ptrs.at(vertex) and ptrs.at(vertex + 1) do not throw std::out_of_range
neighbors_ok(gr, vertex) == vertex >= 0 /\ vertex + 1 < Len(gr.ptrs)

\* std::distance(it.begin(), it.end())
outdegree(gr, vertex) == At(gr.ptrs, vertex + 1) - At(gr.ptrs, vertex)

indegree(gr, vertex) == outdegree(gr, vertex)

\* MaxScan with >= for > in the comparison of the degrees
RECURSIVE MaxScanGe(_, _, _)
MaxScanGe(gr, v, m) ==
    IF v \notin vertexes(gr) THEN m
    ELSE MaxScanGe(gr, v + 1,
                   IF outdegree(gr, v) >= m.degree
                   THEN [vertex |-> v, degree |-> outdegree(gr, v)]
                   ELSE m)

\* the scan of max_outdegree from vertex v on, m the maximum so far
RECURSIVE MaxScan(_, _, _)
MaxScan(gr, v, m) ==
    IF v \notin vertexes(gr) THEN m
    ELSE MaxScan(gr, v + 1,
                 IF outdegree(gr, v) > m.degree
                 THEN [vertex |-> v, degree |-> outdegree(gr, v)]
                 ELSE m)

max_outdegree(gr) == MaxScan(gr, 1, [vertex |-> 0, degree |-> 0])

max_indegree(gr) == MaxScan(gr, 1, [vertex |-> 0, degree |-> 0])

\* tasks/representation: max_degree(ForwardStarDigraph &) and
\* max_degree(ReverseStarDigraph &)
max_degree(gr) == MaxScan(gr, 1, [vertex |-> 0, degree |-> 0])

\* the result of a successors/predecessors call followed by a walk of the range
Neighbors(gr, vertex) ==
    IF neighbors_ok(gr, vertex)
    THEN [ok |-> TRUE, range |-> successors(gr, vertex),
          degree |-> outdegree(gr, vertex)]
    ELSE [ok |-> FALSE, range |-> <<>>, degree |-> 0]

----------------------------------------------------------------------------
\* dfs_result

NewEntry == [discovery_t |-> 0, term_t |-> 0, parent |-> 0]

\* ctl.at(i - 1); i - 1 wraps to 2^32 - 1 for i = 0, so at() throws
at_v_ok(r, i) == i >= 1 /\ i <= Len(r)

\* classify_edge without the test of the parent link
classify_edge_NoParent(r, orig, dest) ==
    IF ~(at_v_ok(r, orig) /\ at_v_ok(r, dest)) THEN "out_of_range"
    ELSE IF r[orig].discovery_t < r[dest].discovery_t THEN "tree"
    ELSE IF r[dest].term_t < r[orig].discovery_t THEN "forward"
    ELSE "back"

\* classify_edge with <= for < in the comparison of the discovery times
classify_edge_Le(r, orig, dest) ==
    IF ~(at_v_ok(r, orig) /\ at_v_ok(r, dest)) THEN "out_of_range"
    ELSE IF r[orig].discovery_t <= r[dest].discovery_t
         THEN (IF r[dest].parent = orig THEN "tree" ELSE "forward")
    ELSE IF r[dest].term_t < r[orig].discovery_t THEN "forward"
    ELSE "back"

classify_edge(r, orig, dest) ==
    IF ~(at_v_ok(r, orig) /\ at_v_ok(r, dest)) THEN "out_of_range"
    ELSE IF r[orig].discovery_t < r[dest].discovery_t
         THEN (IF r[dest].parent = orig THEN "tree" ELSE "forward")
    ELSE IF r[dest].term_t < r[orig].discovery_t THEN "forward"
    ELSE "back"

Event(kind, orig, dest, at) ==
    [kind |-> kind, orig |-> orig, dest |-> dest, at |-> at]

StackOp(op, v) == [op |-> op, v |-> v]

----------------------------------------------------------------------------
\* The programs

Init ==
    /\ prog \in {"star", "representation", "dfs"}
    /\ pc = "input"
    /\ vertex_count \in 1 .. MaxVertex
    /\ edge_bag = <<>>
    /\ input = [e \in {} |-> 0]
    /\ g = NoGraph
    /\ rg = NoGraph
    /\ res = <<>>
    /\ time = 0
    /\ st = <<>>
    /\ it = 0
    /\ cur = 0
    /\ events = <<>>
    /\ classified = <<>>
    /\ err = ""
    /\ rejected = <<>>
    /\ output = <<>>
    /\ queried = <<>>
    /\ stack_log = <<>>

\* edge_bag.add(Edge(e_orig, e_dest)) with valid endpoints
AddEdge ==
    /\ pc = "input"
    /\ Len(edge_bag) < MaxEdges
    /\ \E orig \in 0 .. vertex_count, dest \in 0 .. vertex_count :
          /\ ~EdgeRejected(orig, dest)
          /\ edge_bag' = Append(edge_bag, Edge(orig, dest))
          /\ input' = LET e == Edge(orig, dest)
                      IN  [x \in DOMAIN input \cup {e} |->
                             IF x = e
                             THEN (IF e \in DOMAIN input THEN input[e] + 1 ELSE 1)
                             ELSE input[x]]
    /\ UNCHANGED <<prog, pc, vertex_count, g, rg, err>>
    /\ UNCHANGED dfsVars
    /\ UNCHANGED <<rejected, output, queried, stack_log>>

\* Edge(e_orig, e_dest) throws std::invalid_argument; nothing is added
AddEdgeInvalid ==
    /\ pc = "input"
    /\ Len(edge_bag) < MaxEdges
    /\ \E orig \in 0 .. vertex_count, dest \in 0 .. vertex_count :
          /\ EdgeRejected(orig, dest)
          /\ rejected' = <<orig, dest>>
    /\ pc' = "aborted"
    /\ err' = "invalid_argument"
    /\ UNCHANGED <<prog, vertex_count, edge_bag, input, g, rg>>
    /\ UNCHANGED dfsVars
    /\ UNCHANGED <<output, queried, stack_log>>

\* ForwardStarDigraph g(vertex_count, edge_bag); sorts the bag in place
ConstructForward ==
    /\ pc = "input"
    /\ prog \in {"star", "dfs"}
    /\ g' = ForwardStarDigraph(vertex_count, edge_bag)
    /\ edge_bag' = sort_by_orig(edge_bag)
    /\ pc' = "built"
    /\ UNCHANGED <<prog, vertex_count, input, rg, err>>
    /\ UNCHANGED dfsVars
    /\ UNCHANGED <<rejected, output, queried, stack_log>>

\* tasks/representation: ForwardStarDigraph g(vertex_count, edge_bag)
ConstructForwardRep ==
    /\ pc = "input"
    /\ prog = "representation"
    /\ g' = RepForwardStarDigraph(vertex_count, edge_bag)
    /\ edge_bag' = sort_by_orig(edge_bag)
    /\ pc' = "built"
    /\ UNCHANGED <<prog, vertex_count, input, rg, err>>
    /\ UNCHANGED dfsVars
    /\ UNCHANGED <<rejected, output, queried, stack_log>>

\* one line of output: the vertex and degree found, and the walk of
\* successors(vertex) or predecessors(vertex) that prints its neighbors
Report(gr, m) ==
    [vertex |-> m.vertex, degree |-> m.degree,
     neighbors |-> Neighbors(gr, m.vertex)]

\* auto max_out = g.max_outdegree(); print it and g.successors(max_out.vertex)
ReportMaxOutdegree ==
    /\ pc = "built"
    /\ prog = "star"
    /\ output' = Append(output, Report(g, max_outdegree(g)))
    /\ pc' = "reported"
    /\ UNCHANGED <<prog, vertex_count, edge_bag, input, g, rg, err>>
    /\ UNCHANGED dfsVars
    /\ UNCHANGED <<rejected, queried, stack_log>>

\* tasks/representation: auto max_out = max_degree(g); print it and
\* g.successors(max_out.vertex)
ReportMaxOutdegreeRep ==
    /\ pc = "built"
    /\ prog = "representation"
    /\ output' = Append(output, Report(g, max_degree(g)))
    /\ pc' = "reported"
    /\ UNCHANGED <<prog, vertex_count, edge_bag, input, g, rg, err>>
    /\ UNCHANGED dfsVars
    /\ UNCHANGED <<rejected, queried, stack_log>>

\* ReverseStarDigraph g(vertex_count, edge_bag); sorts the bag in place
ConstructReverse ==
    /\ pc = "reported"
    /\ prog = "star"
    /\ rg' = ReverseStarDigraph(vertex_count, edge_bag)
    /\ edge_bag' = sort_by_dest(edge_bag)
    /\ pc' = "rbuilt"
    /\ UNCHANGED <<prog, vertex_count, input, g, err>>
    /\ UNCHANGED dfsVars
    /\ UNCHANGED <<rejected, output, queried, stack_log>>

\* tasks/representation: ReverseStarDigraph g(vertex_count, edge_bag)
ConstructReverseRep ==
    /\ pc = "reported"
    /\ prog = "representation"
    /\ rg' = RepReverseStarDigraph(vertex_count, edge_bag)
    /\ edge_bag' = sort_by_dest(edge_bag)
    /\ pc' = "rbuilt"
    /\ UNCHANGED <<prog, vertex_count, input, g, err>>
    /\ UNCHANGED dfsVars
    /\ UNCHANGED <<rejected, output, queried, stack_log>>

\* auto max_in = g.max_indegree(); print it and g.predecessors(max_in.vertex)
ReportMaxIndegree ==
    /\ pc = "rbuilt"
    /\ prog = "star"
    /\ output' = Append(output, Report(rg, max_indegree(rg)))
    /\ pc' = "done"
    /\ UNCHANGED <<prog, vertex_count, edge_bag, input, g, rg, err>>
    /\ UNCHANGED dfsVars
    /\ UNCHANGED <<rejected, queried, stack_log>>

\* tasks/representation: auto max_in = max_degree(g); print it and
\* g.predecessors(max_in.vertex)
ReportMaxIndegreeRep ==
    /\ pc = "rbuilt"
    /\ prog = "representation"
    /\ output' = Append(output, Report(rg, max_degree(rg)))
    /\ pc' = "done"
    /\ UNCHANGED <<prog, vertex_count, edge_bag, input, g, rg, err>>
    /\ UNCHANGED dfsVars
    /\ UNCHANGED <<rejected, queried, stack_log>>

\* a call of g.successors(vertex) / g.outdegree(vertex) on the forward star or
\* of g.predecessors(vertex) / g.indegree(vertex) on the reverse star, for any
\* vertex id; vector::at throws std::out_of_range past the pointer array
Query ==
    /\ pc = "done"
    /\ prog = "star"
    /\ \E kind \in {"successors", "predecessors"}, vertex \in 0 .. vertex_count + 2 :
          LET n == Neighbors(IF kind = "successors" THEN g ELSE rg, vertex)
          IN  /\ queried' = [kind |-> kind, vertex |-> vertex, ok |-> n.ok,
                             range |-> n.range, degree |-> n.degree]
              /\ IF n.ok
                 THEN UNCHANGED <<pc, err>>
                 ELSE pc' = "aborted" /\ err' = "out_of_range"
    /\ UNCHANGED <<prog, vertex_count, edge_bag, input, g, rg>>
    /\ UNCHANGED dfsVars
    /\ UNCHANGED <<rejected, output, stack_log>>

----------------------------------------------------------------------------
\* dfs::execute and dfs::dfs_v

Top(stack) == stack[Len(stack)]

Pop(stack) == SubSeq(stack, 1, Len(stack) - 1)

\* the end of the range g.successors(v) the successor loop walks
SuccEnd(v) == At(g.ptrs, v + 1)

\* dfs_result res(g.vertexes_count()); time = 0; it = g.vertexes().begin()
ExecuteBegin ==
    /\ pc = "built"
    /\ prog = "dfs"
    /\ res' = [i \in 1 .. vertexes_count(g) |-> NewEntry]
    /\ time' = 0
    /\ st' = <<>>
    /\ it' = 1
    /\ pc' = "vertexes"
    /\ UNCHANGED <<prog, vertex_count, edge_bag, input, g, rg, err>>
    /\ UNCHANGED <<cur, events, classified>>
    /\ UNCHANGED <<rejected, output, queried, stack_log>>

\* if (res.at_v(v).discovery_t != 0U) continue;
ExecuteSkip ==
    /\ pc = "vertexes"
    /\ it \in vertexes(g)
    /\ res[it].discovery_t # 0
    /\ it' = it + 1
    /\ UNCHANGED <<prog, pc, vertex_count, edge_bag, input, g, rg, err>>
    /\ UNCHANGED <<res, time, st, cur, events, classified>>
    /\ UNCHANGED <<rejected, output, queried, stack_log>>

\* dfs_v(g, st, time, res, v): st.push(starting_vertex)
ExecuteCallDfsV ==
    /\ pc = "vertexes"
    /\ it \in vertexes(g)
    /\ res[it].discovery_t = 0
    /\ st' = Append(st, it)
    /\ stack_log' = Append(stack_log, StackOp("push", it))
    /\ pc' = "st_loop"
    /\ UNCHANGED <<prog, vertex_count, edge_bag, input, g, rg, err>>
    /\ UNCHANGED <<res, time, it, cur, events, classified>>
    /\ UNCHANGED <<rejected, output, queried>>

\* the for loop is over: return res
ExecuteReturn ==
    /\ pc = "vertexes"
    /\ it \notin vertexes(g)
    /\ pc' = "returned"
    /\ UNCHANGED <<prog, vertex_count, edge_bag, input, g, rg, err>>
    /\ UNCHANGED dfsVars
    /\ UNCHANGED <<rejected, output, queried, stack_log>>

\* DfsVReturn leaving the for loop of execute after the first tree
DfsVReturnBreak ==
    /\ pc = "st_loop"
    /\ st = <<>>
    /\ it' = Len(g.ptrs) - 1
    /\ pc' = "vertexes"
    /\ UNCHANGED <<prog, vertex_count, edge_bag, input, g, rg, err>>
    /\ UNCHANGED <<res, time, st, cur, events, classified>>
    /\ UNCHANGED <<rejected, output, queried, stack_log>>

\* while (!st.empty()) fails: dfs_v returns to the for loop of execute
DfsVReturn ==
    /\ pc = "st_loop"
    /\ st = <<>>
    /\ it' = it + 1
    /\ pc' = "vertexes"
    /\ UNCHANGED <<prog, vertex_count, edge_bag, input, g, rg, err>>
    /\ UNCHANGED <<res, time, st, cur, events, classified>>
    /\ UNCHANGED <<rejected, output, queried, stack_log>>

\* v = st.top(); register v as discovered if it is not; start the
\* successor loop at the beginning of g.successors(v)
StLoopTop ==
    /\ pc = "st_loop"
    /\ st # <<>>
    /\ LET v == Top(st)
       IN  /\ IF res[v].discovery_t = 0
              THEN /\ res' = [res EXCEPT ![v].discovery_t = time + 1]
                   /\ time' = time + 1
                   /\ events' = Append(events, Event("vertex", v, 0, 0))
              ELSE UNCHANGED <<res, time, events>>
           /\ cur' = At(g.ptrs, v)
    /\ pc' = "succ_loop"
    /\ UNCHANGED <<prog, vertex_count, edge_bag, input, g, rg, err>>
    /\ UNCHANGED <<st, it, classified>>
    /\ UNCHANGED <<rejected, output, queried, stack_log>>

\* SuccTree without the assignment succ_entry.parent = v
SuccTreeNoParent ==
    /\ pc = "succ_loop"
    /\ cur < SuccEnd(Top(st))
    /\ LET v == Top(st)
           succ_v == At(g.edges, cur)
       IN  /\ res[succ_v].discovery_t = 0
           /\ events' = Append(events, Event("tree", v, succ_v, cur))
           /\ st' = Append(st, succ_v)
           /\ stack_log' = Append(stack_log, StackOp("push", succ_v))
    /\ pc' = "st_loop"
    /\ UNCHANGED <<prog, vertex_count, edge_bag, input, g, rg, err>>
    /\ UNCHANGED <<res, time, it, cur, classified>>
    /\ UNCHANGED <<rejected, output, queried>>

\* SuccTree recording the root of the current tree as the parent
SuccTreeParentRoot ==
    /\ pc = "succ_loop"
    /\ cur < SuccEnd(Top(st))
    /\ LET v == Top(st)
           succ_v == At(g.edges, cur)
       IN  /\ res[succ_v].discovery_t = 0
           /\ events' = Append(events, Event("tree", v, succ_v, cur))
           /\ res' = [res EXCEPT ![succ_v].parent = st[1]]
           /\ st' = Append(st, succ_v)
           /\ stack_log' = Append(stack_log, StackOp("push", succ_v))
    /\ pc' = "st_loop"
    /\ UNCHANGED <<prog, vertex_count, edge_bag, input, g, rg, err>>
    /\ UNCHANGED <<time, it, cur, classified>>
    /\ UNCHANGED <<rejected, output, queried>>

\* SuccTree testing succ_entry.term_t == 0 in place of discovery_t == 0
SuccTreeUnfinished ==
    /\ pc = "succ_loop"
    /\ cur < SuccEnd(Top(st))
    /\ LET v == Top(st)
           succ_v == At(g.edges, cur)
       IN  /\ res[succ_v].term_t = 0
           /\ events' = Append(events, Event("tree", v, succ_v, cur))
           /\ res' = [res EXCEPT ![succ_v].parent = v]
           /\ st' = Append(st, succ_v)
           /\ stack_log' = Append(stack_log, StackOp("push", succ_v))
    /\ pc' = "st_loop"
    /\ UNCHANGED <<prog, vertex_count, edge_bag, input, g, rg, err>>
    /\ UNCHANGED <<time, it, cur, classified>>
    /\ UNCHANGED <<rejected, output, queried>>

\* succ_entry.discovery_t == 0: tree edge, push succ_v, goto st_loop
SuccTree ==
    /\ pc = "succ_loop"
    /\ cur < SuccEnd(Top(st))
    /\ LET v == Top(st)
           succ_v == At(g.edges, cur)
       IN  /\ res[succ_v].discovery_t = 0
           /\ events' = Append(events, Event("tree", v, succ_v, cur))
           /\ res' = [res EXCEPT ![succ_v].parent = v]
           /\ st' = Append(st, succ_v)
           /\ stack_log' = Append(stack_log, StackOp("push", succ_v))
    /\ pc' = "st_loop"
    /\ UNCHANGED <<prog, vertex_count, edge_bag, input, g, rg, err>>
    /\ UNCHANGED <<time, it, cur, classified>>
    /\ UNCHANGED <<rejected, output, queried>>

\* SuccBack leaving the successor loop after the back edge
SuccBackBreak ==
    /\ pc = "succ_loop"
    /\ cur < SuccEnd(Top(st))
    /\ LET v == Top(st)
           succ_v == At(g.edges, cur)
       IN  /\ res[succ_v].discovery_t # 0
           /\ res[succ_v].term_t = 0
           /\ events' = Append(events, Event("back", v, succ_v, cur))
    /\ cur' = SuccEnd(Top(st))
    /\ UNCHANGED <<prog, pc, vertex_count, edge_bag, input, g, rg, err>>
    /\ UNCHANGED <<res, time, st, it, classified>>
    /\ UNCHANGED <<rejected, output, queried, stack_log>>

\* succ_v is discovered and succ_entry.term_t == 0
SuccBack ==
    /\ pc = "succ_loop"
    /\ cur < SuccEnd(Top(st))
    /\ LET v == Top(st)
           succ_v == At(g.edges, cur)
       IN  /\ res[succ_v].discovery_t # 0
           /\ res[succ_v].term_t = 0
           /\ events' = Append(events, Event("back", v, succ_v, cur))
    /\ cur' = cur + 1
    /\ UNCHANGED <<prog, pc, vertex_count, edge_bag, input, g, rg, err>>
    /\ UNCHANGED <<res, time, st, it, classified>>
    /\ UNCHANGED <<rejected, output, queried, stack_log>>

\* succ_v is finished and v_entry.discovery_t < succ_entry.discovery_t
SuccForward ==
    /\ pc = "succ_loop"
    /\ cur < SuccEnd(Top(st))
    /\ LET v == Top(st)
           succ_v == At(g.edges, cur)
       IN  /\ res[succ_v].discovery_t # 0
           /\ res[succ_v].term_t # 0
           /\ res[v].discovery_t < res[succ_v].discovery_t
           /\ events' = Append(events, Event("forward", v, succ_v, cur))
    /\ cur' = cur + 1
    /\ UNCHANGED <<prog, pc, vertex_count, edge_bag, input, g, rg, err>>
    /\ UNCHANGED <<res, time, st, it, classified>>
    /\ UNCHANGED <<rejected, output, queried, stack_log>>

\* succ_v is finished and was discovered before v
SuccCross ==
    /\ pc = "succ_loop"
    /\ cur < SuccEnd(Top(st))
    /\ LET v == Top(st)
           succ_v == At(g.edges, cur)
       IN  /\ res[succ_v].discovery_t # 0
           /\ res[succ_v].term_t # 0
           /\ ~(res[v].discovery_t < res[succ_v].discovery_t)
           /\ events' = Append(events, Event("cross", v, succ_v, cur))
    /\ cur' = cur + 1
    /\ UNCHANGED <<prog, pc, vertex_count, edge_bag, input, g, rg, err>>
    /\ UNCHANGED <<res, time, st, it, classified>>
    /\ UNCHANGED <<rejected, output, queried, stack_log>>

\* PopFinish stamping the finish time without advancing the clock
PopFinishNoTick ==
    /\ pc = "succ_loop"
    /\ cur >= SuccEnd(Top(st))
    /\ LET v == Top(st)
       IN  res' = [res EXCEPT ![v].term_t = time]
    /\ time' = time
    /\ st' = Pop(st)
    /\ stack_log' = Append(stack_log, StackOp("pop", Top(st)))
    /\ pc' = "st_loop"
    /\ UNCHANGED <<prog, vertex_count, edge_bag, input, g, rg, err>>
    /\ UNCHANGED <<it, cur, events, classified>>
    /\ UNCHANGED <<rejected, output, queried>>

\* the successor loop ran to its end: st.pop(); v_entry.term_t = ++time
PopFinish ==
    /\ pc = "succ_loop"
    /\ cur >= SuccEnd(Top(st))
    /\ LET v == Top(st)
       IN  res' = [res EXCEPT ![v].term_t = time + 1]
    /\ time' = time + 1
    /\ st' = Pop(st)
    /\ stack_log' = Append(stack_log, StackOp("pop", Top(st)))
    /\ pc' = "st_loop"
    /\ UNCHANGED <<prog, vertex_count, edge_bag, input, g, rg, err>>
    /\ UNCHANGED <<it, cur, events, classified>>
    /\ UNCHANGED <<rejected, output, queried>>

\* dfs_result res(g.vertexes_count()); res.classify_edge(orig, dest): a
\* result on which no traversal has run is classified
ClassifyFresh ==
    /\ pc = "built"
    /\ prog = "dfs"
    /\ res' = [i \in 1 .. vertexes_count(g) |-> NewEntry]
    /\ \E orig \in 0 .. vertex_count + 1, dest \in 0 .. vertex_count + 1 :
          LET c == classify_edge(res', orig, dest)
          IN  /\ classified' = [orig |-> orig, dest |-> dest, result |-> c]
              /\ IF c = "out_of_range"
                 THEN pc' = "aborted" /\ err' = "out_of_range"
                 ELSE pc' = "classified_fresh" /\ UNCHANGED err
    /\ UNCHANGED <<prog, vertex_count, edge_bag, input, g, rg>>
    /\ UNCHANGED <<time, st, it, cur, events>>
    /\ UNCHANGED <<rejected, output, queried, stack_log>>

\* res.classify_edge(orig, dest) on the result execute returned
Classify ==
    /\ pc = "returned"
    /\ \E orig \in 0 .. vertex_count + 1, dest \in 0 .. vertex_count + 1 :
          LET c == classify_edge(res, orig, dest)
          IN  /\ classified' = [orig |-> orig, dest |-> dest, result |-> c]
              /\ IF c = "out_of_range"
                 THEN pc' = "aborted" /\ err' = "out_of_range"
                 ELSE UNCHANGED <<pc, err>>
    /\ UNCHANGED <<prog, vertex_count, edge_bag, input, g, rg>>
    /\ UNCHANGED <<res, time, st, it, cur, events>>
    /\ UNCHANGED <<rejected, output, queried, stack_log>>

Next ==
    \/ AddEdge
    \/ AddEdgeInvalid
    \/ ConstructForward
    \/ ConstructForwardRep
    \/ ReportMaxOutdegree
    \/ ReportMaxOutdegreeRep
    \/ ConstructReverse
    \/ ConstructReverseRep
    \/ ReportMaxIndegree
    \/ ReportMaxIndegreeRep
    \/ Query
    \/ ExecuteBegin
    \/ ExecuteSkip
    \/ ExecuteCallDfsV
    \/ ExecuteReturn
    \/ DfsVReturn
    \/ StLoopTop
    \/ SuccTree
    \/ SuccBack
    \/ SuccForward
    \/ SuccCross
    \/ PopFinish
    \/ ClassifyFresh
    \/ Classify

Spec == Init /\ [][Next]_vars

\* the steps of dfs::execute
ExecuteStep ==
    \/ ExecuteBegin
    \/ ExecuteSkip
    \/ ExecuteCallDfsV
    \/ ExecuteReturn
    \/ DfsVReturn
    \/ StLoopTop
    \/ SuccTree
    \/ SuccBack
    \/ SuccForward
    \/ SuccCross
    \/ PopFinish

\* dfs::execute is one synchronous call on a single thread: once the graph is
\* built, the next step of the traversal is taken as long as there is one
FairSpec == Spec /\ WF_vars(ExecuteStep)

----------------------------------------------------------------------------
\* Vocabulary of the properties

Returned == prog = "dfs" /\ pc = "returned"

Vertices == 1 .. vertex_count

\* the edges of the forward-star graph as (origin, destination) pairs
GraphEdges ==
    UNION {{<<v, successors(g, v)[k]>> : k \in DOMAIN successors(g, v)} :
             v \in vertexes(g)}

EdgeKinds == {"tree", "back", "forward", "cross"}

EdgeEvents == {i \in DOMAIN events : events[i].kind \in EdgeKinds}

EventsOf(kind) ==
    {<<events[i].orig, events[i].dest>> :
        i \in {j \in DOMAIN events : events[j].kind = kind}}

\* The textbook recursive depth-first search over g: visit(v) stamps the
\* discovery time, visits each undiscovered successor in successors(v) order
\* before looking at the next one, then stamps the finish time.
RECURSIVE RecVisit(_, _), RecScan(_, _, _), RecRoots(_, _)
RecScan(s, v, k) ==
    LET succ == successors(g, v)
    IN  IF k \notin DOMAIN succ THEN s
        ELSE IF s.res[succ[k]].discovery_t = 0
             THEN RecScan(RecVisit([s EXCEPT !.res[succ[k]].parent = v],
                                   succ[k]), v, k + 1)
             ELSE RecScan(s, v, k + 1)

RecVisit(s, v) ==
    LET s1 == [time |-> s.time + 1,
               res  |-> [s.res EXCEPT ![v].discovery_t = s.time + 1]]
        s2 == RecScan(s1, v, 1)
    IN  [time |-> s2.time + 1,
         res  |-> [s2.res EXCEPT ![v].term_t = s2.time + 1]]

RecRoots(s, v) ==
    IF v \notin vertexes(g) THEN s
    ELSE RecRoots(IF s.res[v].discovery_t = 0 THEN RecVisit(s, v) ELSE s, v + 1)

RecursiveDfs ==
    RecRoots([time |-> 0, res |-> [i \in vertexes(g) |-> NewEntry]], 1).res

----------------------------------------------------------------------------
\* Properties

\* C1: after dfs::execute returns, every vertex v in [1, vertex_count] has
\* 0 < discovery_t(v) < term_t(v), no two vertices share a discovery time and
\* no two vertices share a finish time.
C1_TimesOrderedUnique ==
    Returned =>
        /\ \A v \in Vertices :
              0 < res[v].discovery_t /\ res[v].discovery_t < res[v].term_t
        /\ \A u \in Vertices, v \in Vertices :
              u # v => /\ res[u].discovery_t # res[v].discovery_t
                       /\ res[u].term_t # res[v].term_t

\* a traversal of a three-vertex graph with three edges has returned
C1_Witness ==
    Returned /\ vertex_count = 3 /\ Len(edge_bag) = 3 /\ time = 6

\* C2: classify_edge(origin, destination) returns cross whenever
\* discovery(origin) >= discovery(destination) and
\* finish(destination) < discovery(origin).
C2_CrossWhenFinishedBefore ==
    (/\ classified # <<>>
     /\ at_v_ok(res, classified.orig)
     /\ at_v_ok(res, classified.dest)
     /\ res[classified.orig].discovery_t >= res[classified.dest].discovery_t
     /\ res[classified.dest].term_t < res[classified.orig].discovery_t)
    => classified.result = "cross"

\* C3: during one dfs::execute the four edge callbacks are invoked at most
\* once in total for every edge of the graph (an edge is a position of the
\* neighbor array, so parallel edges count separately), and the
\* vertex-discovery callback is invoked at most once per vertex.
C3_CallbacksAtMostOnce ==
    /\ \A i \in EdgeEvents, j \in EdgeEvents :
          events[i].at = events[j].at => i = j
    /\ \A i \in DOMAIN events, j \in DOMAIN events :
          (/\ events[i].kind = "vertex"
           /\ events[j].kind = "vertex"
           /\ events[i].orig = events[j].orig) => i = j

\* C4: every edge event dfs::execute emitted for (u, v) has the category
\* classify_edge(u, v) returns on the completed result.
C4_EventsAgreeWithClassify ==
    Returned =>
        \A i \in EdgeEvents :
            events[i].kind = classify_edge(res, events[i].orig, events[i].dest)

\* C5: after dfs::execute, the graph edges that classify_edge calls tree are
\* exactly the edges for which tree_edge_visitor was invoked.
C5_TreeEdgesMatch ==
    Returned =>
        {e \in GraphEdges : classify_edge(res, e[1], e[2]) = "tree"}
            = EventsOf("tree")

\* a returned traversal with a tree edge and an edge that is not a tree edge
C5_Witness ==
    /\ Returned
    /\ EventsOf("tree") # {}
    /\ GraphEdges \ EventsOf("tree") # {}

\* the graph with vertices {1,2,3} and edges (1,2), (2,3), (1,3)
Scenario123 ==
    /\ vertex_count = 3
    /\ g # NoGraph
    /\ edge_bag = <<Edge(1, 2), Edge(1, 3), Edge(2, 3)>>

\* C6: on the graph {1,2,3} with edges (1,2), (2,3), (1,3), dfs::execute
\* assigns discovery times 1, 2, 3 and finish times 6, 5, 4 to vertices
\* 1, 2, 3, emits tree-edge events exactly for (1,2) and (2,3), a forward-edge
\* event exactly for (1,3), and no back-edge and no cross-edge event.
C6_Scenario123 ==
    (Returned /\ Scenario123) =>
        /\ res[1].discovery_t = 1 /\ res[2].discovery_t = 2
        /\ res[3].discovery_t = 3
        /\ res[1].term_t = 6 /\ res[2].term_t = 5 /\ res[3].term_t = 4
        /\ EventsOf("tree") = {<<1, 2>>, <<2, 3>>}
        /\ EventsOf("forward") = {<<1, 3>>}
        /\ EventsOf("back") = {}
        /\ EventsOf("cross") = {}

\* the graph with vertices {1,2} and edges (1,2), (2,1)
Scenario12 ==
    /\ vertex_count = 2
    /\ g # NoGraph
    /\ edge_bag = <<Edge(1, 2), Edge(2, 1)>>

\* C7: classify_edge(origin, destination) returns back whenever
\* discovery(origin) >= discovery(destination) and
\* finish(destination) >= discovery(origin); after a complete traversal every
\* self-loop (v, v) classifies as back; in the graph {1,2} with edges (1,2),
\* (2,1), edge (1,2) classifies as tree and edge (2,1) as back.
C7_BackClassification ==
    /\ (/\ classified # <<>>
        /\ at_v_ok(res, classified.orig)
        /\ at_v_ok(res, classified.dest)
        /\ res[classified.orig].discovery_t >= res[classified.dest].discovery_t
        /\ res[classified.dest].term_t >= res[classified.orig].discovery_t)
       => classified.result = "back"
    /\ Returned => \A v \in Vertices : classify_edge(res, v, v) = "back"
    /\ (Returned /\ Scenario12) =>
          /\ classify_edge(res, 1, 2) = "tree"
          /\ classify_edge(res, 2, 1) = "back"

\* classify_edge has answered back for the self-loop (2, 2) of the graph
C7_Witness ==
    /\ Returned
    /\ <<2, 2>> \in GraphEdges
    /\ classified # <<>>
    /\ classified.orig = 2 /\ classified.dest = 2
    /\ classified.result = "back"

\* C8: the discovery time, finish time and parent the iterative dfs::execute
\* assigns to each vertex are those the textbook recursive DFS assigns.
C8_SameAsRecursive ==
    Returned => res = RecursiveDfs

\* a returned traversal in which vertex 1 has two tree children, so the
\* successor range of vertex 1 was resumed after a recursion
C8_Witness ==
    /\ Returned
    /\ vertex_count = 3
    /\ res[2].parent = 1
    /\ res[3].parent = 1

\* C9: dfs::execute, once entered, terminates, and when it returns every
\* vertex in [1, vertex_count] has a non-zero discovery time and a non-zero
\* finish time, also the vertices not reachable from vertex 1.
C9_TerminatesAllVisited ==
    /\ [](Returned =>
            \A v \in Vertices :
                 res[v].discovery_t # 0 /\ res[v].term_t # 0)
    /\ ((prog = "dfs" /\ pc = "vertexes") ~> Returned)

\* a returned traversal of a graph with a cycle, a self-loop and a vertex
\* that vertex 1 does not reach
C9_Witness ==
    /\ Returned
    /\ {<<1, 2>>, <<2, 1>>, <<2, 2>>} \subseteq GraphEdges
    /\ vertex_count = 3
    /\ res[3].term_t # 0

\* the bag of (origin, destination) pairs a star graph yields: for the
\* forward star (v, d) with d over successors(v), for the reverse star
\* (o, v) with o over predecessors(v)
ForwardPairs ==
    LET pairs == UNION {{Edge(v, successors(g, v)[k]) :
                           k \in DOMAIN successors(g, v)} : v \in vertexes(g)}
    IN  [e \in pairs |->
            Cardinality({k \in DOMAIN successors(g, e.orig) :
                            successors(g, e.orig)[k] = e.dest})]

ReversePairs ==
    LET pairs == UNION {{Edge(predecessors(rg, v)[k], v) :
                           k \in DOMAIN predecessors(rg, v)} : v \in vertexes(rg)}
    IN  [e \in pairs |->
            Cardinality({k \in DOMAIN predecessors(rg, e.dest) :
                            predecessors(rg, e.dest)[k] = e.orig})]

\* C10: the multiset of pairs (v, d), v over vertexes() and d over
\* successors(v), of a ForwardStarDigraph equals the edge multiset it was
\* built from; the multiset of pairs (o, v), o over predecessors(v), of a
\* ReverseStarDigraph equals the edge multiset it was built from.
C10_RoundTrip ==
    prog \in {"star", "dfs"} =>
        /\ g # NoGraph => ForwardPairs = input
        /\ rg # NoGraph => ReversePairs = input

\* both graphs are built from a bag with a parallel edge, read out of order,
\* in which vertex 1 has no successor and vertex 3 no predecessor
C10_Witness ==
    /\ prog = "star"
    /\ rg # NoGraph
    /\ vertex_count = 3
    /\ input = (Edge(3, 2) :> 2) @@ (Edge(2, 1) :> 1)

\* the graphs of the star library (tasks/representation-star)
StarLibrary == prog \in {"star", "dfs"}

\* the pointer array has vertex_count + 2 entries, is non-decreasing from
\* index 1 on, and every range [ptrs[v], ptrs[v+1]) lies in the neighbor array
WellFormedStar(gr) ==
    /\ Len(gr.ptrs) = vertex_count + 2
    /\ \A i \in 1 .. vertex_count : At(gr.ptrs, i) <= At(gr.ptrs, i + 1)
    /\ \A v \in Vertices :
          /\ 0 <= At(gr.ptrs, v)
          /\ At(gr.ptrs, v) <= At(gr.ptrs, v + 1)
          /\ At(gr.ptrs, v + 1) <= Len(gr.edges)

\* C11: after constructing a ForwardStarDigraph or ReverseStarDigraph of the
\* star library, the pointer array has exactly vertex_count + 2 entries, is
\* non-decreasing from index 1 on, and for every v in [1, vertex_count] the
\* range [ptrs[v], ptrs[v+1]) lies inside the neighbor array, also for
\* vertices without edges and above the highest id in the edges.
C11_PointerArrayWellFormed ==
    StarLibrary =>
        /\ g # NoGraph => WellFormedStar(g)
        /\ rg # NoGraph => WellFormedStar(rg)

\* both graphs are built from the single edge (2, 2) on three vertices:
\* vertex 1 has no edge and vertex 3 is above the highest id in the edges
C11_Witness ==
    /\ prog = "star"
    /\ rg # NoGraph
    /\ vertex_count = 3
    /\ input = (Edge(2, 2) :> 1)

\* C12: for every vertex id v outside [1, vertex_count], v = 0 and
\* v = vertex_count + 1 included, successors(v) and predecessors(v) either
\* fail with an out-of-range error or yield an empty range: they never yield
\* an element, and outdegree(v) / indegree(v) is never positive.
C12_OutsideFailsOrEmpty ==
    (queried # <<>> /\ queried.vertex \notin Vertices) =>
        \/ ~queried.ok
        \/ (queried.range = <<>> /\ queried.degree <= 0)

\* C13: on a graph with vertex_count >= 1 and no edges, max_outdegree() and
\* max_indegree() return degree 0 paired with vertex 1, never an id outside
\* [1, vertex_count]; on a single-vertex graph without a self-loop
\* outdegree(1) and indegree(1) are both 0.
C13_NoEdgesFirstVertex ==
    /\ (prog = "star" /\ DOMAIN input = {}) =>
          \A i \in DOMAIN output :
              /\ output[i].degree = 0
              /\ output[i].vertex = 1
              /\ output[i].vertex \in Vertices
    /\ (prog = "star" /\ vertex_count = 1 /\ DOMAIN input = {}) =>
          /\ g # NoGraph => outdegree(g, 1) = 0
          /\ rg # NoGraph => indegree(rg, 1) = 0

\* the number of edges added to the bag with origin v, with destination v
EdgesFrom(v) ==
    Cardinality({p \in (DOMAIN input) \X (1 .. Len(edge_bag)) :
                    p[1].orig = v /\ p[2] <= input[p[1]]})

EdgesTo(v) ==
    Cardinality({p \in (DOMAIN input) \X (1 .. Len(edge_bag)) :
                    p[1].dest = v /\ p[2] <= input[p[1]]})

\* (v, k) is the first vertex of the largest degree, with that degree
FirstMax(r, Degree(_)) ==
    /\ r.vertex \in Vertices
    /\ r.degree = Degree(r.vertex)
    /\ \A u \in Vertices : Degree(u) <= r.degree
    /\ \A u \in Vertices : u < r.vertex => Degree(u) < r.degree

\* C14: on a graph with at least one edge, max_outdegree() returns (v, k)
\* with k the maximum outdegree over [1, vertex_count] and v the lowest
\* vertex of outdegree k; max_indegree() does the same for the indegree.
C14_MaxDegreeFirstVertex ==
    (prog = "star" /\ edge_bag # <<>>) =>
        /\ Len(output) >= 1 => FirstMax(output[1], EdgesFrom)
        /\ Len(output) >= 2 => FirstMax(output[2], EdgesTo)

\* both maxima are reported for a graph in which vertices 2 and 3 tie for
\* the largest outdegree and vertices 1 and 2 for the largest indegree
C14_Witness ==
    /\ prog = "star"
    /\ Len(output) = 2
    /\ Len(edge_bag) = 2
    /\ EdgesFrom(2) = 1 /\ EdgesFrom(3) = 1
    /\ EdgesTo(1) = 1 /\ EdgesTo(2) = 1

\* C15: classify_edge(origin, destination) signals an out-of-range error,
\* instead of returning a classification, whenever either endpoint is outside
\* [1, vertex_count] or refers to a vertex that is still undiscovered
\* (discovery time 0, as on a result on which no traversal has run).
C15_ClassifyRejectsInvalid ==
    (/\ classified # <<>>
     /\ \/ classified.orig \notin Vertices
        \/ classified.dest \notin Vertices
        \/ res[classified.orig].discovery_t = 0
        \/ res[classified.dest].discovery_t = 0)
    => classified.result = "out_of_range"

\* C16: constructing Edge(origin, destination) fails with an invalid-vertex
\* error if and only if origin = 0 or destination = 0; a rejected edge leaves
\* the bag unchanged, and no edge of an EdgeBag, hence no entry of a neighbor
\* range of a star graph for v in [1, vertex_count], has endpoint 0.
C16_NoZeroEndpoint ==
    /\ [](err = "invalid_argument" <=> rejected # <<>>)
    /\ [](rejected # <<>> => (rejected[1] = 0 \/ rejected[2] = 0))
    /\ [](\A k \in DOMAIN edge_bag :
              edge_bag[k].orig # 0 /\ edge_bag[k].dest # 0)
    /\ [](\A e \in DOMAIN input : e.orig # 0 /\ e.dest # 0)
    /\ [][rejected' # rejected =>
             (edge_bag' = edge_bag /\ input' = input)]_vars
    /\ [](\A gr \in {g, rg} : gr # NoGraph =>
              \A v \in Vertices :
                  neighbors_ok(gr, v) =>
                      \A k \in DOMAIN successors(gr, v) :
                          successors(gr, v)[k] # 0)

\* an Edge with one endpoint 0 was rejected after two edges had been added
C16_Witness ==
    /\ err = "invalid_argument"
    /\ rejected = <<2, 0>>
    /\ Len(edge_bag) = 2

\* C17: the two forms of trailing padding in ReverseStarDigraph construction
\* are behaviourally identical: the single trailing sentinel of
\* tasks/representation and the padding loop of the star library give the
\* same vertexes() sequence 1..vertex_count and the same predecessors(v) for
\* every v in [1, vertex_count].
C17_ReversePaddingSame ==
    (prog = "representation" /\ rg # NoGraph) =>
        LET lib == ReverseStarDigraph(vertex_count, edge_bag)
        IN  /\ vertexes(lib) = Vertices
            /\ vertexes(rg) = vertexes(lib)
            /\ \A v \in Vertices :
                  /\ neighbors_ok(rg, v) <=> neighbors_ok(lib, v)
                  /\ neighbors_ok(rg, v) =>
                        predecessors(rg, v) = predecessors(lib, v)

\* C18: in ForwardStarDigraph construction the pointer array gets one entry
\* for every vertex id up to the current edge's origin, skipped ids included:
\* outdegree(v) is the number of edges with origin v for every v in
\* [1, vertex_count], for the constructor of the star library and for the
\* constructor of tasks/representation.
C18_OutdegreeCountsEdges ==
    g # NoGraph =>
        \A v \in Vertices :
            neighbors_ok(g, v) /\ outdegree(g, v) = EdgesFrom(v)

\* the positions of stack_log at which vertex v is pushed / popped
LogOf(op, v) == {k \in DOMAIN stack_log : stack_log[k] = StackOp(op, v)}

\* the successors of v the traversal has not discovered
Undiscovered(v) ==
    {k \in At(g.ptrs, v) .. (At(g.ptrs, v + 1) - 1) :
        res[At(g.edges, k)].discovery_t = 0}

\* C19: in dfs::execute every vertex is pushed on the stack exactly once, at
\* the moment it is found undiscovered (as a successor or as the root of a
\* new tree), and popped exactly once; at the moment a vertex is popped and
\* gets its finish time every one of its successors has a non-zero
\* discovery time.
C19_PushPopOnce ==
    /\ [](\A v \in Vertices :
            /\ Cardinality(LogOf("push", v)) <= 1
            /\ Cardinality(LogOf("pop", v)) <= Cardinality(LogOf("push", v)))
    /\ [](Returned => \A v \in Vertices :
            /\ Cardinality(LogOf("push", v)) = 1
            /\ Cardinality(LogOf("pop", v)) = 1)
    /\ [][Len(st') > Len(st) =>
            /\ res[Top(st')].discovery_t = 0
            /\ stack_log' = Append(stack_log, StackOp("push", Top(st')))]_vars
    /\ [][Len(st') < Len(st) =>
            /\ Undiscovered(Top(st)) = {}
            /\ res'[Top(st)].term_t = time'
            /\ res[Top(st)].term_t = 0
            /\ stack_log' = Append(stack_log, StackOp("pop", Top(st)))]_vars
    /\ [][stack_log' # stack_log => Len(st') # Len(st)]_vars

C19_Witness ==
    /\ Returned
    /\ stack_log = <<StackOp("push", 1), StackOp("push", 2),
                     StackOp("pop", 2), StackOp("push", 3),
                     StackOp("pop", 3), StackOp("pop", 1)>>

\* C20: at every step of dfs::execute the stack holds pairwise distinct
\* vertices forming a path of the parent forest: the bottom element has
\* parent 0, every other element's parent is the element beneath it, every
\* element below the top is discovered and unfinished, no finished vertex
\* is on the stack; the stack is empty whenever execute is at its for loop
\* (the "stack not empty" sanity check cannot fire) and when it returns.
C20_StackIsParentPath ==
    /\ \A j, k \in DOMAIN st : j # k => st[j] # st[k]
    /\ \A k \in DOMAIN st :
          /\ st[k] \in Vertices
          /\ res[st[k]].parent = (IF k = 1 THEN 0 ELSE st[k - 1])
          /\ res[st[k]].term_t = 0
          /\ k < Len(st) => res[st[k]].discovery_t # 0
    /\ pc = "vertexes" => st = <<>>
    /\ Returned => st = <<>>
    /\ pc \notin {"vertexes", "st_loop", "succ_loop", "returned"} => st = <<>>

C20_Witness ==
    /\ pc = "succ_loop"
    /\ st = <<1, 3, 2>>
    /\ res[2].parent = 3
    /\ res[2].discovery_t = 3

\* the number of vertices on the stack before the k-th stack operation
DepthBefore(k) ==
    Cardinality({j \in 1 .. (k - 1) : stack_log[j].op = "push"})
        - Cardinality({j \in 1 .. (k - 1) : stack_log[j].op = "pop"})

\* the vertices at which execute started a new tree: those pushed on the
\* empty stack
TreeRoots ==
    {stack_log[k].v : k \in {j \in DOMAIN stack_log :
                               stack_log[j].op = "push" /\ DepthBefore(j) = 0}}

\* the interval [discovery, finish] of u lies strictly inside that of v
Inside(u, v) ==
    /\ res[v].discovery_t < res[u].discovery_t
    /\ res[u].term_t < res[v].term_t

\* the intervals [discovery, finish] of u and v have no time in common
Disjoint(u, v) ==
    \/ res[u].term_t < res[v].discovery_t
    \/ res[v].term_t < res[u].discovery_t

\* C21: after dfs::execute(g) parent links and timestamps are consistent:
\* for every vertex v with parent p # 0, (p, v) is an edge of g and
\* discovery(p) < discovery(v) < finish(v) < finish(p); the parent is 0
\* exactly for the vertices at which execute started a new tree; the
\* intervals [discovery, finish] of two vertices are disjoint or one
\* strictly contains the other.
C21_ParentsAndParentheses ==
    Returned =>
        /\ \A v \in Vertices :
              LET p == res[v].parent
              IN  /\ p \in Vertices \cup {0}
                  /\ p # 0 =>
                        /\ <<p, v>> \in GraphEdges
                        /\ res[p].discovery_t < res[v].discovery_t
                        /\ res[v].discovery_t < res[v].term_t
                        /\ res[v].term_t < res[p].term_t
                  /\ p = 0 <=> v \in TreeRoots
        /\ \A u, v \in Vertices :
              u # v => (Disjoint(u, v) \/ Inside(u, v) \/ Inside(v, u))

\* a returned traversal with two trees: 2 is a child of 1, and 3, which has
\* an edge into the first tree, is the root of the second
C21_Witness ==
    /\ Returned
    /\ vertex_count = 3
    /\ res[2].parent = 1
    /\ res[3].parent = 0
    /\ res[3].discovery_t = 5
    /\ <<3, 2>> \in GraphEdges

====
